---- MODULE Spec2Model ----
(***************************************************************************)
(* Model of src/src/App.jsx: the theme hook (useTheme), the navigation bar *)
(* (Nav) and the three content sections that fetch collections (Projects,  *)
(* Experience, Blog).                                                       *)
(*                                                                         *)
(* One step of the model is one task of the browser's event loop: the     *)
(* first render of App, the flush of the mount effects, a user event, an   *)
(* OS colour-scheme notification, a settled fetch, a re-render or the      *)
(* flush of the theme effect.                                              *)
(***************************************************************************)
EXTENDS Naturals, Sequences, FiniteSets

\* ------------------------------------------------------------------ bounds

\* Longest list of records a backend response carries.
MaxItems == 1
\* Largest vertical scroll position (window.scrollY ranges over 0..MaxY).
MaxY == 1

\* ------------------------------------------------------------------ values

\* What localStorage.getItem returns for a key that is not stored (null).
NoValue == "<null>"
\* No queued state update / no explicit choice yet.
None == "<none>"

\* The values the 'theme' key can hold when the page loads: absent, the two
\* values the program itself writes, the empty string and a foreign string.
StoredAtLoad == {NoValue, "", "light", "dark", "blue"}

\* localStorage as the browser offers it to the page: working, access denied
\* (every access throws a SecurityError), or full (setItem throws a
\* QuotaExceededError while getItem works).
StorageModes == {"ok", "denied", "full"}

Collections == {"projects", "experience", "education", "posts"}
\* The two collections the Experience section requests together.
Joined == {"experience", "education"}
\* The anchors of Nav's items.
NavItems == {"about", "stack", "projects", "xp", "blog"}

List(n) == [i \in 1..n |-> i]

\* A parsed JSON body: a list of records, or a value that is not a list
\* (such as an error object {"detail": ...}).
EmptyList == [isList |-> TRUE, items |-> <<>>]
NotAList == [isList |-> FALSE, items |-> <<>>]
JsonValues == {[isList |-> TRUE, items |-> List(n)] : n \in 0..MaxItems} \cup {NotAList}

\* What a request can come back with: a network error (fetch rejects), or a
\* response with a status (okStatus = res.ok) and a body that parses as JSON
\* or does not.
NetworkError == [net |-> FALSE, okStatus |-> FALSE, json |-> FALSE, data |-> EmptyList]
Responses ==
    {NetworkError}
    \cup {[net |-> TRUE, okStatus |-> s, json |-> FALSE, data |-> EmptyList] : s \in BOOLEAN}
    \cup {[net |-> TRUE, okStatus |-> s, json |-> TRUE, data |-> d] : s \in BOOLEAN, d \in JsonValues}

VARIABLES
    osDark,          \* matchMedia('(prefers-color-scheme: dark)').matches, now
    stored,          \* localStorage 'theme'
    storage,         \* how localStorage behaves in this page view
    persistedAtLoad, \* the value of 'theme' when the page loaded
    phase,           \* "start", "rendered" (first render done), "mounted"
    error,           \* "none", or what threw: "storage" or "render"
    theme,           \* useTheme: the theme state of the last render
    pending,         \* useTheme: the queued setTheme value, or None
    applyDue,        \* the [theme] effect is scheduled and has not run yet
    rootClasses,     \* document.documentElement.classList
    explicit,        \* the value of the user's last toggle, or None
    notified,        \* an OS notification reached the handler since then
    open,            \* Nav: open
    scrollUp,        \* Nav: scrollUp
    lastY,           \* Nav: lastY.current
    req,             \* per collection: "idle", "inflight", "done"
    settled,         \* Experience: the values of the two promises given to Promise.all
    items,           \* Projects: items
    xp,              \* Experience: xp
    edu,             \* Experience: edu
    posts            \* Blog: posts

themeVars == <<osDark, stored, storage, persistedAtLoad, theme, pending, applyDue,
               rootClasses, explicit, notified>>
navVars == <<open, scrollUp, lastY>>
contentVars == <<req, settled, items, xp, edu, posts>>
vars == <<themeVars, navVars, contentVars, phase, error>>

\* --------------------------------------------------------------- useTheme

\* JavaScript truthiness of a getItem result: null and '' are falsy.
Truthy(v) == v # NoValue /\ v # ""

\* prefersDark ? 'dark' : 'light'  and  e.matches ? 'dark' : 'light'
OsTheme(dark) == IF dark THEN "dark" ELSE "light"

\* InitialTheme with the OS signal taking precedence over the stored value.
InitialThemeOsFirst(s, dark) == OsTheme(dark)

\* useState initializer: localStorage.getItem('theme') || (prefersDark ? ...)
InitialTheme(s, dark) == IF Truthy(s) THEN s ELSE OsTheme(dark)

\* theme === 'dark' ? 'light' : 'dark'
Flip(t) == IF t = "dark" THEN "light" ELSE "dark"

\* ApplyTheme without the classList.remove call.
ApplyThemeNoRemove(classes, t) == classes \cup {t}

\* classList.remove('light', 'dark'); classList.add(theme)
ApplyTheme(classes, t) == (classes \ {"light", "dark"}) \cup {t}

\* HandlerSets without the look at localStorage.
HandlerSetsAlways(s) == TRUE

\* The handler's condition: !localStorage.getItem('theme')
HandlerSets(s) == ~Truthy(s)

\* The theme the view is heading for: the queued update if there is one.
Resolved == IF pending # None THEN pending ELSE theme

Init ==
    /\ osDark \in BOOLEAN
    /\ stored \in StoredAtLoad
    /\ storage \in StorageModes
    /\ persistedAtLoad = stored
    /\ phase = "start"
    /\ error = "none"
    /\ theme = None
    /\ pending = None
    /\ applyDue = FALSE
    /\ rootClasses = {}
    /\ explicit = None
    /\ notified = FALSE
    /\ open = FALSE
    /\ scrollUp = TRUE
    /\ lastY = 0
    /\ req = [c \in Collections |-> "idle"]
    /\ settled = [c \in Joined |-> EmptyList]
    /\ items = EmptyList
    /\ xp = EmptyList
    /\ edu = EmptyList
    /\ posts = EmptyList

\* The first render of App: useTheme's useMemo and useState initializers.
\* getItem throws when storage access is denied, and the render fails.
FirstRender ==
    /\ phase = "start"
    /\ error = "none"
    /\ IF storage = "denied"
         THEN /\ error' = "storage"
              /\ UNCHANGED <<phase, theme, applyDue>>
         ELSE /\ theme' = InitialTheme(stored, osDark)
              /\ phase' = "rendered"
              /\ applyDue' = TRUE
              /\ UNCHANGED error
    /\ UNCHANGED <<osDark, stored, storage, persistedAtLoad, pending, rootClasses,
                   explicit, notified, navVars, contentVars>>

\* The mount effects, children first: Nav subscribes to scroll, the sections
\* issue their requests, useTheme applies and persists the theme and
\* subscribes to the OS notifications. setItem throws when storage is full.
MountEffects ==
    /\ phase = "rendered"
    /\ error = "none"
    /\ req' = [c \in Collections |-> "inflight"]
    /\ rootClasses' = ApplyTheme(rootClasses, theme)
    /\ applyDue' = FALSE
    /\ IF storage = "ok"
         THEN /\ stored' = theme
              /\ phase' = "mounted"
              /\ UNCHANGED error
         ELSE /\ error' = "storage"
              /\ UNCHANGED <<stored, phase>>
    /\ UNCHANGED <<osDark, storage, persistedAtLoad, theme, pending, explicit, notified,
                   navVars, settled, items, xp, edu, posts>>

\* The [theme] effect after a render that changed theme.
ApplyEffect ==
    /\ phase = "mounted"
    /\ error = "none"
    /\ applyDue
    /\ rootClasses' = ApplyTheme(rootClasses, theme)
    /\ applyDue' = FALSE
    /\ IF storage = "ok"
         THEN /\ stored' = theme
              /\ UNCHANGED error
         ELSE /\ error' = "storage"
              /\ UNCHANGED stored
    /\ UNCHANGED <<osDark, storage, persistedAtLoad, theme, pending, explicit, notified,
                   navVars, contentVars, phase>>

\* A re-render that takes the queued setTheme value. React flushes the
\* scheduled effects of the previous render before it renders again; the
\* [theme] effect is scheduled when the value differs from the last render's.
Rerender ==
    /\ phase = "mounted"
    /\ error = "none"
    /\ pending # None
    /\ ~applyDue
    /\ theme' = pending
    /\ pending' = None
    /\ applyDue' = (pending # theme)
    /\ UNCHANGED <<osDark, stored, storage, persistedAtLoad, rootClasses, explicit,
                   notified, navVars, contentVars, phase, error>>

\* The OS colour scheme changes. Once useTheme has subscribed, the handler
\* runs: it queues the notified theme if no 'theme' value is stored.
OSChange ==
    /\ error = "none"
    /\ osDark' = ~osDark
    /\ IF phase = "mounted"
         THEN /\ notified' = TRUE
              /\ pending' = IF storage # "denied" /\ HandlerSets(stored)
                              THEN OsTheme(osDark')
                              ELSE pending
         ELSE UNCHANGED <<notified, pending>>
    /\ UNCHANGED <<stored, storage, persistedAtLoad, theme, applyDue, rootClasses,
                   explicit, navVars, contentVars, phase, error>>

\* ToggleTheme with the mobile menu's theme button also closing the menu.
ToggleThemeClosesMenu ==
    /\ phase = "mounted"
    /\ error = "none"
    /\ pending' = Flip(theme)
    /\ explicit' = Flip(theme)
    /\ notified' = FALSE
    /\ open' = FALSE
    /\ UNCHANGED <<osDark, stored, storage, persistedAtLoad, theme, applyDue,
                   rootClasses, scrollUp, lastY, contentVars, phase, error>>

\* Either theme button: setTheme(theme === 'dark' ? 'light' : 'dark'), with
\* the theme of the last render.
ToggleTheme ==
    /\ phase = "mounted"
    /\ error = "none"
    /\ pending' = Flip(theme)
    /\ explicit' = Flip(theme)
    /\ notified' = FALSE
    /\ UNCHANGED <<osDark, stored, storage, persistedAtLoad, theme, applyDue,
                   rootClasses, navVars, contentVars, phase, error>>

\* -------------------------------------------------------------------- Nav

\* The menu button: setOpen(!open)
ToggleMenu ==
    /\ phase = "mounted"
    /\ error = "none"
    /\ open' = ~open
    /\ UNCHANGED <<themeVars, scrollUp, lastY, contentVars, phase, error>>

\* A link of the mobile menu, rendered only while open: setOpen(false)
SelectItem(it) ==
    /\ phase = "mounted"
    /\ error = "none"
    /\ it \in NavItems
    /\ open
    /\ open' = FALSE
    /\ UNCHANGED <<themeVars, scrollUp, lastY, contentVars, phase, error>>

\* The scroll listener: setScrollUp(y < lastY.current); lastY.current = y
onScroll(y) ==
    /\ phase = "mounted"
    /\ error = "none"
    /\ scrollUp' = (y < lastY)
    /\ lastY' = y
    /\ UNCHANGED <<themeVars, open, contentVars, phase, error>>

\* The bar's class: scrollUp ? 'opacity-100' : 'opacity-0'
BarShown == (scrollUp = TRUE)

\* ------------------------------------------------------- content sections

\* fetch(...) followed by res.json() rejects on a network error and on a
\* body that does not parse; the status is not looked at.
Rejects(r) == ~r.net \/ ~r.json

\* fetch(...).then(r => r.json()).catch(() => [])
OrEmpty(r) == IF Rejects(r) THEN EmptyList ELSE r.data

\* A section's render calls .map on what it holds.
RenderThrows(d) == ~d.isList

\* Projects: load() settles. setItems(data) unless the try block threw.
SettleProjects(r) ==
    /\ phase = "mounted"
    /\ error = "none"
    /\ req["projects"] = "inflight"
    /\ req' = [req EXCEPT !["projects"] = "done"]
    /\ items' = IF Rejects(r) THEN items ELSE r.data
    /\ error' = IF RenderThrows(items') THEN "render" ELSE error
    /\ UNCHANGED <<themeVars, navVars, settled, xp, edu, posts, phase>>

\* Blog: fetch(...).then(r => r.json()).then(setPosts).catch(() => {})
SettlePosts(r) ==
    /\ phase = "mounted"
    /\ error = "none"
    /\ req["posts"] = "inflight"
    /\ req' = [req EXCEPT !["posts"] = "done"]
    /\ posts' = IF Rejects(r) THEN posts ELSE r.data
    /\ error' = IF RenderThrows(posts') THEN "render" ELSE error
    /\ UNCHANGED <<themeVars, navVars, settled, items, xp, edu, phase>>

\* Experience: one of the two promises given to Promise.all settles; the
\* .then of Promise.all runs once both have: setXp(a); setEdu(b).
SettleJoined(c, r) ==
    /\ phase = "mounted"
    /\ error = "none"
    /\ c \in Joined
    /\ req[c] = "inflight"
    /\ req' = [req EXCEPT ![c] = "done"]
    /\ settled' = [settled EXCEPT ![c] = OrEmpty(r)]
    /\ IF \A d \in Joined : req'[d] = "done"
         THEN /\ xp' = settled'["experience"]
              /\ edu' = settled'["education"]
              /\ error' = IF RenderThrows(xp') \/ RenderThrows(edu') THEN "render" ELSE error
         ELSE UNCHANGED <<xp, edu, error>>
    /\ UNCHANGED <<themeVars, navVars, items, posts, phase>>

\* What a section holds of a collection.
Held(c) ==
    CASE c = "projects" -> items
      [] c = "experience" -> xp
      [] c = "education" -> edu
      [] c = "posts" -> posts

\* The request of collection c comes back with r.
Settle(c, r) ==
    CASE c = "projects" -> SettleProjects(r)
      [] c = "posts" -> SettlePosts(r)
      [] OTHER -> SettleJoined(c, r)

Next ==
    \/ FirstRender
    \/ MountEffects
    \/ ApplyEffect
    \/ Rerender
    \/ OSChange
    \/ ToggleTheme
    \/ ToggleMenu
    \/ \E it \in NavItems : SelectItem(it)
    \/ \E y \in 0..MaxY : onScroll(y)
    \/ \E r \in Responses : SettleProjects(r)
    \/ \E r \in Responses : SettlePosts(r)
    \/ \E c \in Joined, r \in Responses : SettleJoined(c, r)

Spec == Init /\ [][Next]_vars

\* ------------------------------------------------------------------ claims

\* C1: in a page view that started with no persisted theme and in which the
\* user has not set a theme, every OS colour-scheme notification sets the
\* resolved theme to the notified value.
C1_OsNotificationFollowed ==
    [][(phase = "mounted" /\ error = "none" /\ persistedAtLoad = NoValue
          /\ explicit = None /\ osDark' # osDark)
        => Resolved' = OsTheme(osDark')]_vars

\* C2: once the user has set a theme p, the resolved theme is p, whatever OS
\* notifications, renders and effects follow, until the next explicit set.
C2_ExplicitThemeKept == explicit # None => Resolved = explicit

\* C2 witness: the user chose dark, the OS then announced light, the render
\* and the effect have run, and the theme is dark.
C2_Witness ==
    /\ explicit = "dark" /\ notified /\ ~osDark
    /\ pending = None /\ ~applyDue /\ theme = "dark"

\* C3 as stated: the first render resolves the theme to the persisted value
\* whenever one exists, and to the OS signal when none exists.
C3_PersistedValueWins ==
    [][(phase = "start" /\ phase' = "rendered")
        => theme' = IF stored # NoValue THEN stored ELSE OsTheme(osDark)]_vars

\* C3 amended: the first render resolves the theme to the persisted value
\* whenever a non-empty one exists, and to the OS signal (dark iff the OS
\* prefers dark) when none exists or the persisted value is the empty string.
C3_NonEmptyPersistedValueWins ==
    [][(phase = "start" /\ phase' = "rendered")
        => theme' = IF stored # NoValue /\ stored # "" THEN stored
                    ELSE IF osDark THEN "dark" ELSE "light"]_vars

\* C3 witness: persisted light with the OS preferring dark has given light.
C3_Witness ==
    phase = "rendered" /\ persistedAtLoad = "light" /\ osDark /\ theme = "light"

\* C4: whatever the failure kind of a collection's request (a network error,
\* a body that is not JSON, a non-success status whatever its body), the
\* section ends holding the empty sequence and reaches no error state.
C4_FailSoft ==
    [][\A c \in Collections, r \in Responses :
         (Settle(c, r) /\ (~r.net \/ ~r.json \/ ~r.okStatus)) => (Held(c)' = EmptyList /\ error' = "none")]_vars

\* C5: a view initialized with no persisted preference leaves the 'theme' key
\* absent until the user sets a theme.
C5_OsThemeNotPersisted ==
    (persistedAtLoad = NoValue /\ explicit = None) => stored = NoValue

\* C6: a failure of storage access is never surfaced.
C6_StorageFailureSilent == error # "storage"

\* C7: the menu starts collapsed, the menu control flips it, selecting an
\* item collapses it, and no other event changes it.
C7_MenuTransitions ==
    /\ open = FALSE
    /\ [][/\ ToggleMenu => open' = ~open
          /\ (\E it \in NavItems : SelectItem(it)) => (open /\ ~open')
          /\ open' # open => (ToggleMenu \/ \E it \in NavItems : SelectItem(it))]_vars

\* C7 witness: the menu is expanded, and a theme toggle, a scroll and a
\* settled request have taken place in this view.
C7_Witness ==
    open /\ explicit # None /\ lastY > 0 /\ req["posts"] = "done" /\ error = "none"

\* C8: the bar is shown before any scroll event, and after a scroll event it
\* is shown iff the position moved upward or did not move.
C8_BarFollowsScroll ==
    /\ BarShown
    /\ [][\A y \in 0..MaxY : onScroll(y) => (BarShown' <=> y <= lastY)]_vars

\* C9: each collection is displayed as soon as its own request settles,
\* whether or not any other request has settled.
C9_Independent ==
    [][\A c \in Collections, r \in Responses :
         Settle(c, r) => Held(c)' = OrEmpty(r)]_vars

\* C10: given a persisted value at load that is light or dark (or none),
\* once a theme change has been applied the document root carries exactly
\* one of the flags light/dark, the resolved theme, and 'theme' stores it.
C10_AppliedAndPersisted ==
    (phase = "mounted" /\ ~applyDue /\ persistedAtLoad \in {NoValue, "light", "dark"})
    => (rootClasses \cap {"light", "dark"} = {theme} /\ stored = theme)

\* C10 witness: a toggle from a persisted dark has been rendered and applied.
C10_Witness ==
    /\ phase = "mounted" /\ ~applyDue /\ pending = None
    /\ persistedAtLoad = "dark" /\ explicit = "light" /\ theme = "light"
    /\ stored = "light" /\ rootClasses = {"light"}

====
